---- MODULE Spec2Model ----
(***************************************************************************)
(* Model of src/app.py, the book analytics dashboard: load_data (read_csv  *)
(* plus the derived rating_score column), the three sidebar filters, the   *)
(* boolean-indexed filtered_df, the four KPI metrics and the CSV export.   *)
(*                                                                         *)
(* A CSV file is a header (sequence of column names) and rows of text      *)
(* cells.  A DataFrame is its column names, its index labels and one       *)
(* record per row mapping a column name to a typed value.  pandas is       *)
(* modelled as pandas 2.x behaves.                                         *)
(***************************************************************************)
EXTENDS Integers, Sequences, FiniteSets, TLC

VARIABLES
  source,            \* the CSV file read at line 10
  pc,                \* "start" | "loaded" | "failed" | "rendered"
  error,             \* the exception that ended the script, "" when none
  df,                \* line 22
  price_range,       \* line 29, <<low, high>>
  selected_cat,      \* line 33
  selected_ratings,  \* line 37
  filtered_df,       \* line 39
  kpi,               \* lines 54-63, the four metric texts
  csv,               \* line 145
  last_event,        \* history: the interaction that caused the latest script run
  narrowed           \* history: some earlier view left a record out

vars == <<source, pc, error, df, price_range, selected_cat, selected_ratings,
          filtered_df, kpi, csv, last_event, narrowed>>

\* Bounds of the model.
MaxRows == 2
MaxLoadRows == 2

----------------------------------------------------------------------------
\* Typed cell values.  Every value has the same three fields so that values
\* of different types compare unequal instead of being incomparable.

StrV(x) == [t |-> "str", s |-> x, n |-> 0]
IntV(k) == [t |-> "int", s |-> "", n |-> k]
FloatV(k) == [t |-> "float", s |-> "", n |-> k]
BoolV(b) == [t |-> "bool", s |-> "", n |-> IF b THEN 1 ELSE 0]

\* The integers a text cell of the model can denote.
Numbers == (0 .. 9) \cup {1984, 2001}

IntText(k) == ToString(k)
FloatText(k) == ToString(k) \o ".0"
IntTexts == {IntText(k) : k \in Numbers}
FloatTexts == {FloatText(k) : k \in Numbers}
BoolTexts == {"True", "False"}

ParseInt(x) == CHOOSE k \in Numbers : IntText(k) = x
ParseFloat(x) == CHOOSE k \in Numbers : FloatText(k) = x \/ IntText(k) = x

Range(seq) == {seq[j] : j \in 1 .. Len(seq)}
Pos(seq, c) == CHOOSE j \in 1 .. Len(seq) : seq[j] = c

\* python truthiness of a cell value, as `if row[...]` tests it
Truthy(v) == IF v.t = "str" THEN v.s # "" ELSE v.n # 0

----------------------------------------------------------------------------
\* pd.read_csv: the column type is inferred per column from all its cells
\* (integer, else float, else boolean, else text); a column without cells is
\* an object column.

infer_dtype(texts) ==
  IF Len(texts) = 0 THEN "str"
  ELSE IF Range(texts) \subseteq IntTexts THEN "int"
  ELSE IF Range(texts) \subseteq (IntTexts \cup FloatTexts) THEN "float"
  ELSE IF Range(texts) \subseteq BoolTexts THEN "bool"
  ELSE "str"

convert(dtype, x) ==
  CASE dtype = "int" -> IntV(ParseInt(x))
    [] dtype = "float" -> FloatV(ParseFloat(x))
    [] dtype = "bool" -> BoolV(x = "True")
    [] OTHER -> StrV(x)

read_csv(file) ==
  LET n == Len(file.rows)
      cols == file.header
      column(j) == [i \in 1 .. n |-> file.rows[i][j]]
      dt(j) == infer_dtype(column(j))
  IN [columns |-> cols,
      index |-> [i \in 1 .. n |-> i - 1],
      data |-> [i \in 1 .. n |->
                 [c \in Range(cols) |->
                    convert(dt(Pos(cols, c)), file.rows[i][Pos(cols, c)])]]]

NoFrame == [columns |-> << >>, index |-> << >>, data |-> << >>]

----------------------------------------------------------------------------
\* get_rating: the result of one call, a returned score or a raised KeyError
\* (row[...] of a column the row does not have).

Return(k) == [raised |-> "", value |-> k]
KeyError(c) == [raised |-> "KeyError: " \o c, value |-> 0]

get_rating_natural_order(row) ==
  IF "rating_one" \notin DOMAIN row THEN KeyError("rating_one")
  ELSE IF Truthy(row["rating_one"]) THEN Return(1)
  ELSE IF "rating_two" \notin DOMAIN row THEN KeyError("rating_two")
  ELSE IF Truthy(row["rating_two"]) THEN Return(2)
  ELSE IF "rating_three" \notin DOMAIN row THEN KeyError("rating_three")
  ELSE IF Truthy(row["rating_three"]) THEN Return(3)
  ELSE IF "rating_four" \notin DOMAIN row THEN KeyError("rating_four")
  ELSE IF Truthy(row["rating_four"]) THEN Return(4)
  ELSE Return(5)

get_rating(row) ==
  IF "rating_four" \notin DOMAIN row THEN KeyError("rating_four")
  ELSE IF Truthy(row["rating_four"]) THEN Return(4)
  ELSE IF "rating_one" \notin DOMAIN row THEN KeyError("rating_one")
  ELSE IF Truthy(row["rating_one"]) THEN Return(1)
  ELSE IF "rating_three" \notin DOMAIN row THEN KeyError("rating_three")
  ELSE IF Truthy(row["rating_three"]) THEN Return(3)
  ELSE IF "rating_two" \notin DOMAIN row THEN KeyError("rating_two")
  ELSE IF Truthy(row["rating_two"]) THEN Return(2)
  ELSE Return(5)

\* df['rating_score'] = scores: an existing column is overwritten in place, a
\* new one is appended as the last column.
setitem_rating_score(frame, scores) ==
  [columns |-> IF "rating_score" \in Range(frame.columns)
               THEN frame.columns
               ELSE Append(frame.columns, "rating_score"),
   index |-> frame.index,
   data |-> [i \in 1 .. Len(frame.data) |->
              [c \in (DOMAIN frame.data[i]) \cup {"rating_score"} |->
                 IF c = "rating_score" THEN IntV(scores[i].value)
                 ELSE frame.data[i][c]]]]

\* A loader that keeps only the records with an indicator set.
load_data_rated_only(file) ==
  LET frame == read_csv(file)
      scores == [i \in 1 .. Len(frame.data) |-> get_rating(frame.data[i])]
      bad == {i \in 1 .. Len(frame.data) : scores[i].raised # ""}
      keep(i) == scores[i].raised = "" /\ scores[i].value # 5
      at == SelectSeq([i \in 1 .. Len(frame.data) |-> i], keep)
      kept == [columns |-> frame.columns,
               index |-> [k \in 1 .. Len(at) |-> frame.index[at[k]]],
               data |-> [k \in 1 .. Len(at) |-> frame.data[at[k]]]]
  IN IF bad # {}
     THEN [error |-> scores[CHOOSE i \in bad : \A j \in bad : i <= j].raised,
           df |-> NoFrame]
     ELSE [error |-> "",
           df |-> setitem_rating_score(kept, [k \in 1 .. Len(at) |-> scores[at[k]]])]

\* load_data: df.apply(get_rating, axis=1) calls get_rating on the rows in
\* order; the first call that raises ends the load and nothing is returned.
\* Of a frame without rows, apply gives an empty series (pandas 2.x) and the
\* load returns the empty table with its rating_score column.
load_data(file) ==
  LET frame == read_csv(file)
      scores == [i \in 1 .. Len(frame.data) |-> get_rating(frame.data[i])]
      bad == {i \in 1 .. Len(frame.data) : scores[i].raised # ""}
  IN IF bad # {}
     THEN [error |-> scores[CHOOSE i \in bad : \A j \in bad : i <= j].raised,
           df |-> NoFrame]
     ELSE [error |-> "", df |-> setitem_rating_score(frame, scores)]

----------------------------------------------------------------------------
\* The sidebar (lines 27-37): the slider's end points and the options of the
\* two multiselects, all taken from the loaded table.

SeqMin(xs) == CHOOSE a \in Range(xs) : \A b \in Range(xs) : a <= b
SeqMax(xs) == CHOOSE a \in Range(xs) : \A b \in Range(xs) : a >= b
SeqSum(xs) ==
  LET S[k \in 0 .. Len(xs)] == IF k = 0 THEN 0 ELSE S[k - 1] + xs[k]
  IN S[Len(xs)]

price_of(frame) == [i \in 1 .. Len(frame.data) |-> frame.data[i]["price"].n]
title_length_of(frame) ==
  [i \in 1 .. Len(frame.data) |-> frame.data[i]["title_length"].n]

min_p(frame) == SeqMin(price_of(frame))
max_p(frame) == SeqMax(price_of(frame))
categories(frame) ==
  {frame.data[i]["price_category"] : i \in 1 .. Len(frame.data)}
ratings(frame) ==
  {frame.data[i]["rating_score"] : i \in 1 .. Len(frame.data)}

----------------------------------------------------------------------------
\* filtered_df = df[mask] (lines 39-43).

isin_empty_is_all(v, chosen) == chosen = {} \/ v \in chosen

isin(v, chosen) == v \in chosen

mask_open_above(frame, pr, cats, rts) ==
  [i \in 1 .. Len(frame.data) |->
     /\ frame.data[i]["price"].n >= pr[1]
     /\ frame.data[i]["price"].n < pr[2]
     /\ isin(frame.data[i]["price_category"], cats)
     /\ isin(frame.data[i]["rating_score"], rts)]

mask(frame, pr, cats, rts) ==
  [i \in 1 .. Len(frame.data) |->
     /\ frame.data[i]["price"].n >= pr[1]
     /\ frame.data[i]["price"].n <= pr[2]
     /\ isin(frame.data[i]["price_category"], cats)
     /\ isin(frame.data[i]["rating_score"], rts)]

\* Boolean indexing that hands the selected rows back last row first.
getitem_reversed(frame, m) ==
  LET keep(i) == m[i]
      at == SelectSeq([i \in 1 .. Len(frame.data) |-> i], keep)
      k == Len(at)
  IN [columns |-> frame.columns,
      index |-> [j \in 1 .. k |-> frame.index[at[k + 1 - j]]],
      data |-> [j \in 1 .. k |-> frame.data[at[k + 1 - j]]]]

\* Boolean indexing: the rows whose mask entry is true, in the frame's order,
\* each under its own index label.
getitem(frame, m) ==
  LET keep(i) == m[i]
      at == SelectSeq([i \in 1 .. Len(frame.data) |-> i], keep)
  IN [columns |-> frame.columns,
      index |-> [j \in 1 .. Len(at) |-> frame.index[at[j]]],
      data |-> [j \in 1 .. Len(at) |-> frame.data[at[j]]]]

----------------------------------------------------------------------------
\* The KPI row (lines 54-63).  A float result is nan or the exact quotient
\* num/den.

NaN == [nan |-> TRUE, num |-> 0, den |-> 1]
Quotient(a, b) == [nan |-> FALSE, num |-> a, den |-> b]

\* Series.mean() and Series.max(): nan for a series without values
mean(xs) == IF Len(xs) = 0 THEN NaN ELSE Quotient(SeqSum(xs), Len(xs))
max(xs) == IF Len(xs) = 0 THEN NaN ELSE Quotient(SeqMax(xs), 1)

\* f"{x:.2f}" of a non-negative x, to the nearest hundredth
format_2f(x) ==
  IF x.nan THEN "nan"
  ELSE LET cents == (200 * x.num + x.den) \div (2 * x.den)
       IN ToString(cents \div 100) \o "." \o ToString((cents % 100) \div 10)
            \o ToString(cents % 10)

\* int(x) of a non-negative x
int(x) == x.num \div x.den

kpis(view) ==
  [total |-> ToString(Len(view.data)) \o " Books",
   avg_price |-> "$" \o format_2f(mean(price_of(view))),
   highest_price |-> "$" \o format_2f(max(price_of(view))),
   avg_title_length |->
     LET avg_len == IF Len(view.data) # 0 THEN mean(title_length_of(view))
                    ELSE Quotient(0, 1)
     IN ToString(int(avg_len)) \o " Chars"]

----------------------------------------------------------------------------
\* filtered_df.to_csv(index=False) (line 145): a header row, then one row of
\* cell texts per record; the index labels are not written.

format(v) ==
  CASE v.t = "int" -> IntText(v.n)
    [] v.t = "float" -> FloatText(v.n)
    [] v.t = "bool" -> (IF v.n = 1 THEN "True" ELSE "False")
    [] OTHER -> v.s

to_csv(frame) ==
  [header |-> frame.columns,
   rows |-> [i \in 1 .. Len(frame.data) |->
              [j \in 1 .. Len(frame.columns) |->
                 format(frame.data[i][frame.columns[j]])]]]

----------------------------------------------------------------------------
\* Source files.  The columns the script reads: title (line 123), price
\* (line 28), price_category (line 32), title_length (line 62) and the four
\* indicators (lines 13-16).

Columns ==
  <<"title", "price", "price_category", "title_length",
    "rating_four", "rating_three", "rating_two", "rating_one">>

Book(title, price, cat, len, r4, r3, r2, r1) ==
  [title |-> title, price |-> price, price_category |-> cat,
   title_length |-> len, rating_four |-> r4, rating_three |-> r3,
   rating_two |-> r2, rating_one |-> r1]

\* the CSV file with the given header holding the given books
File(header, books) ==
  [header |-> header,
   rows |-> [i \in 1 .. Len(books) |->
              [j \in 1 .. Len(header) |-> books[i][header[j]]]]]

SeqsUpTo(S, lo, hi) == UNION {[1 .. k -> S] : k \in lo .. hi}

\* The inventory of the dashboard session: some titles are numerals, and some
\* records carry several indicators or none.
Books ==
  {Book("Dune", "1.0", "Low", "4", "False", "False", "False", "False"),
   Book("1984", "2.0", "Medium", "4", "False", "True", "False", "False"),
   Book("Ulysses", "3.0", "High", "7", "True", "False", "False", "True"),
   Book("2001", "2.0", "Low", "4", "False", "False", "True", "True")}

SessionSources == {File(Columns, b) : b \in SeqsUpTo(Books, 1, MaxRows)}

\* The files the loader is tried on: every combination of the indicators, under
\* the full header or a header that lacks one column.  A file without records
\* is loaded under the full header only.
LoadBooks ==
  {Book("Dune", "2.0", "Low", "4", r4, r3, r2, r1) :
     r4 \in BoolTexts, r3 \in BoolTexts, r2 \in BoolTexts, r1 \in BoolTexts}

Without(c) == SelectSeq(Columns, LAMBDA x : x # c)
Headers == {Columns} \cup {Without(c) : c \in Range(Columns)}

LoadSources ==
  {File(h, b) : h \in Headers, b \in SeqsUpTo(LoadBooks, 1, MaxLoadRows)}
    \cup {File(Columns, << >>)}

NoKpi == [total |-> "", avg_price |-> "", highest_price |-> "",
          avg_title_length |-> ""]
NoCsv == [header |-> << >>, rows |-> << >>]

----------------------------------------------------------------------------
\* The loader on its own: df = load_data() (line 22).

InitLoad ==
  /\ source \in LoadSources
  /\ pc = "start"
  /\ error = ""
  /\ df = NoFrame
  /\ price_range = <<0, 0>>
  /\ selected_cat = {}
  /\ selected_ratings = {}
  /\ filtered_df = NoFrame
  /\ kpi = NoKpi
  /\ csv = NoCsv
  /\ last_event = "none"
  /\ narrowed = FALSE

Load ==
  /\ pc = "start"
  /\ LET r == load_data(source)
     IN /\ error' = r.error
        /\ df' = r.df
        /\ pc' = IF r.error = "" THEN "loaded" ELSE "failed"
  /\ UNCHANGED <<source, price_range, selected_cat, selected_ratings,
                 filtered_df, kpi, csv, last_event, narrowed>>

NextLoad == Load

SpecLoad == InitLoad /\ [][NextLoad]_vars

----------------------------------------------------------------------------
\* The dashboard session.  Every interaction reruns the script top to bottom
\* with the widgets' current values: load_data() is answered from the cache
\* (line 8), the view is filtered from df (lines 39-43), the KPIs and the export
\* are computed from the view.

\* A rerun that filters the view it showed before.
RerunIncremental(event, pr, cats, rts) ==
  /\ pc = "rendered"
  /\ price_range' = pr
  /\ selected_cat' = cats
  /\ selected_ratings' = rts
  /\ filtered_df' = getitem(filtered_df, mask(filtered_df, pr, cats, rts))
  /\ kpi' = kpis(filtered_df')
  /\ csv' = to_csv(filtered_df')
  /\ last_event' = event
  /\ narrowed' = (narrowed \/ Len(filtered_df.data) < Len(df.data))
  /\ UNCHANGED <<source, pc, error, df>>

Rerun(event, pr, cats, rts) ==
  /\ pc = "rendered"
  /\ price_range' = pr
  /\ selected_cat' = cats
  /\ selected_ratings' = rts
  /\ filtered_df' = getitem(df, mask(df, pr, cats, rts))
  /\ kpi' = kpis(filtered_df')
  /\ csv' = to_csv(filtered_df')
  /\ last_event' = event
  /\ narrowed' = (narrowed \/ Len(filtered_df.data) < Len(df.data))
  /\ UNCHANGED <<source, pc, error, df>>

\* The first run of the script: every widget at its default (lines 29, 33, 37).
Init ==
  \E src \in SessionSources :
    LET table == load_data(src).df
        view == getitem(table, mask(table, <<min_p(table), max_p(table)>>,
                                    categories(table), ratings(table)))
    IN /\ source = src
       /\ pc = "rendered"
       /\ error = ""
       /\ df = table
       /\ price_range = <<min_p(table), max_p(table)>>
       /\ selected_cat = categories(table)
       /\ selected_ratings = ratings(table)
       /\ filtered_df = view
       /\ kpi = kpis(view)
       /\ csv = to_csv(view)
       /\ last_event = "open"
       /\ narrowed = FALSE

\* the slider is moved (line 29): any low <= high within [min_p, max_p]
ChangePriceRange(lo, hi) ==
  /\ lo <= hi
  /\ Rerun("slider", <<lo, hi>>, selected_cat, selected_ratings)

\* the category multiselect is changed (line 33)
ChangeCategories(cats) ==
  Rerun("categories", price_range, cats, selected_ratings)

\* the rating multiselect is changed (line 37)
ChangeRatings(rts) ==
  Rerun("ratings", price_range, selected_cat, rts)

\* The reset button (lines 47-48): the click reruns the script, button()
\* returns True and st.rerun() runs it once more; the slider and the
\* multiselects come back with the values they hold.
ResetAllFilters ==
  Rerun("reset", price_range, selected_cat, selected_ratings)

Next ==
  \/ \E lo \in min_p(df) .. max_p(df), hi \in min_p(df) .. max_p(df) :
       ChangePriceRange(lo, hi)
  \/ \E cats \in SUBSET categories(df) : ChangeCategories(cats)
  \/ \E rts \in SUBSET ratings(df) : ChangeRatings(rts)
  \/ ResetAllFilters

Spec == Init /\ [][Next]_vars

----------------------------------------------------------------------------
\* Properties of the loader, checked under SpecLoad.

Indicators == {"rating_four", "rating_three", "rating_two", "rating_one"}

\* the indicator c of the i-th record, as the source file states it
Told(i, c) == source.rows[i][Pos(source.header, c)] = "True"

\* C1: every loaded record's rating_score follows the first-match precedence
\* rating_four -> 4, else rating_one -> 1, else rating_three -> 3, else
\* rating_two -> 2, else 5, whatever the other indicators say.
RatingPrecedence ==
  (pc = "loaded" /\ Indicators \subseteq Range(source.header)) =>
    /\ Len(df.data) = Len(source.rows)
    /\ \A i \in 1 .. Len(source.rows) :
         df.data[i]["rating_score"] =
           IntV(IF Told(i, "rating_four") THEN 4
                ELSE IF Told(i, "rating_one") THEN 1
                ELSE IF Told(i, "rating_three") THEN 3
                ELSE IF Told(i, "rating_two") THEN 2
                ELSE 5)

\* a loaded table with a record whose rating_four and rating_one are both set
\* (scored 4) and a record with no indicator set (scored 5)
RatingPrecedenceWitness ==
  /\ pc = "loaded"
  /\ Indicators \subseteq Range(source.header)
  /\ \E i, j \in 1 .. Len(df.data) :
       /\ Told(i, "rating_four") /\ Told(i, "rating_one")
       /\ df.data[i]["rating_score"] = IntV(4)
       /\ \A c \in Indicators : ~Told(j, c)
       /\ df.data[j]["rating_score"] = IntV(5)

\* C5: a source that lacks one of the required columns makes the load itself
\* fail and return no table.
MissingColumnFailsLoad ==
  (pc # "start" /\ ~(Range(Columns) \subseteq Range(source.header))) =>
    (pc = "failed" /\ error # "" /\ df = NoFrame)

\* C7: the loader never raises on a source with all the columns, keeps every
\* record in the source's order, and gives each a rating_score in 1..5.
LoaderKeepsEveryRecord ==
  (pc # "start" /\ source.header = Columns) =>
    /\ pc = "loaded"
    /\ error = ""
    /\ Len(df.data) = Len(source.rows)
    /\ \A i \in 1 .. Len(source.rows) :
         /\ df.index[i] = i - 1
         /\ \A j \in 1 .. Len(source.header) :
              format(df.data[i][source.header[j]]) = source.rows[i][j]
         /\ df.data[i]["rating_score"].t = "int"
         /\ df.data[i]["rating_score"].n \in 1 .. 5

\* a loaded source of two different records, the first with several indicators
\* set and the second with none
LoaderKeepsEveryRecordWitness ==
  /\ pc = "loaded"
  /\ source.header = Columns
  /\ Len(df.data) = 2
  /\ Cardinality({c \in Indicators : Told(1, c)}) >= 2
  /\ \A c \in Indicators : ~Told(2, c)

----------------------------------------------------------------------------
\* Properties of the dashboard session, checked under Spec.

Included(i) == df.index[i] \in Range(filtered_df.index)

\* C2: a record of the table is in the filtered view exactly when its price is
\* within the slider's range, both ends included, and its category and its
\* rating are among the selected ones.
FilterMembership ==
  /\ price_range[1] <= price_range[2]
  /\ \A i \in 1 .. Len(df.data) :
       Included(i) <=>
         /\ price_range[1] <= df.data[i]["price"].n
         /\ df.data[i]["price"].n <= price_range[2]
         /\ df.data[i]["price_category"] \in selected_cat
         /\ df.data[i]["rating_score"] \in selected_ratings

\* a narrowed range whose upper end is the price of a record in the view, with
\* a dearer record left out
FilterMembershipWitness ==
  /\ price_range[2] < max_p(df)
  /\ \E i, j \in 1 .. Len(df.data) :
       /\ Included(i)
       /\ df.data[i]["price"].n = price_range[2]
       /\ ~Included(j)
       /\ df.data[j]["price"].n > price_range[2]

\* C3: over an empty view the record count is 0 and the mean price and the mean
\* title length both show the fallback 0.
EmptyViewKpisAreZero ==
  Len(filtered_df.data) = 0 =>
    /\ kpi.total = "0 Books"
    /\ kpi.avg_price = "$0.00"
    /\ kpi.avg_title_length = "0 Chars"

\* C4: after the reset button the slider spans the table's whole price range,
\* every category and every rating is selected, and the view is the whole
\* table.
ResetSelectsEverything ==
  last_event = "reset" =>
    /\ price_range = <<min_p(df), max_p(df)>>
    /\ selected_cat = categories(df)
    /\ selected_ratings = ratings(df)
    /\ filtered_df = df

\* C6: with no category selected, or no rating selected, the view is empty and
\* the script still ran to its end.
EmptySelectionEmptyView ==
  (selected_cat = {} \/ selected_ratings = {}) =>
    (Len(filtered_df.data) = 0 /\ pc = "rendered" /\ error = "")

\* no category selected while the slider and the ratings select everything
EmptySelectionEmptyViewWitness ==
  /\ selected_cat = {}
  /\ selected_ratings = ratings(df)
  /\ price_range = <<min_p(df), max_p(df)>>
  /\ Len(df.data) > 0
  /\ Len(filtered_df.data) = 0

ViewIsSubsequence ==
  /\ filtered_df.columns = df.columns
  /\ Len(filtered_df.data) = Len(filtered_df.index)
  /\ \A k \in 1 .. Len(filtered_df.index) :
       /\ filtered_df.index[k] \in Range(df.index)
       /\ filtered_df.data[k] = df.data[filtered_df.index[k] + 1]
       /\ k > 1 => filtered_df.index[k - 1] < filtered_df.index[k]

\* C8: the view holds only records of the table, in the table's order and none
\* twice, and a script run under unchanged criteria shows the same view again.
FilterSubsequenceAndRepeatable ==
  /\ []ViewIsSubsequence
  /\ [][(df' = df /\ price_range' = price_range /\ selected_cat' = selected_cat
           /\ selected_ratings' = selected_ratings)
          => filtered_df' = filtered_df]_vars

\* a view that holds some but not all records, shown again by a run that
\* changed no criterion
FilterSubsequenceWitness ==
  /\ last_event = "reset"
  /\ Len(filtered_df.data) > 0
  /\ Len(filtered_df.data) < Len(df.data)

\* C9: the exported CSV, loaded through the loader, gives the exported view
\* back: the same columns and the same records in the same order, rating_score
\* included.
ExportRoundTrip ==
  LET back == load_data(csv)
  IN /\ back.error = ""
     /\ back.df.columns = filtered_df.columns
     /\ back.df.data = filtered_df.data

\* C10: the table is the one the load produced, and the view is the filter of
\* that whole table under the current criteria, whatever was shown before.
TableKeptViewFresh ==
  /\ df = load_data(source).df
  /\ filtered_df =
       getitem(df, mask(df, price_range, selected_cat, selected_ratings))

\* every record is back in the view after an earlier view had left some out
TableKeptViewFreshWitness ==
  /\ narrowed
  /\ Len(df.data) >= 2
  /\ filtered_df.data = df.data

====
